---- MODULE Spec2Model ----
(***************************************************************************)
(* Text Transformation App (streamlit_app.py): the keyword dictionary the  *)
(* sidebar resolves, classify_sentence, process_dataframe and the script   *)
(* reruns that call them.                                                  *)
(*                                                                         *)
(* A Python str is a sequence of one-character strings.  A Python value    *)
(* (a JSON value after json.loads, a cell of the table) is a record        *)
(* [t, s, items]: t is its type, s its text when it is a str, items its    *)
(* elements when it is a list and its <<key, value>> pairs, in insertion   *)
(* order, when it is a dict.                                               *)
(***************************************************************************)
EXTENDS Naturals, Sequences, FiniteSets, TLC

\* ------------------------------------------------------------------ bounds
\* most rows of an enumerated table
MaxRows == 2

\* ------------------------------------------------------------- characters
\* the characters \s matches and str.strip() removes
IsSpace(c) == c \in {" ", "\t", "\n"}

\* the character class with '!' forgotten: [.?]
IsTerminal_m(c) == c \in {".", "?"}

\* the character class [.!?]
IsTerminal(c) == c \in {".", "!", "?"}

UpperCase == <<"A","B","C","D","E","F","G","H","I","J","K","L","M",
               "N","O","P","Q","R","S","T","U","V","W","X","Y","Z">>
LowerCase == <<"a","b","c","d","e","f","g","h","i","j","k","l","m",
               "n","o","p","q","r","s","t","u","v","w","x","y","z">>

\* upper-case letter |-> lower-case letter
LowerOf ==
    [c \in {UpperCase[i] : i \in 1..Len(UpperCase)} |->
        LowerCase[CHOOSE i \in 1..Len(UpperCase) : UpperCase[i] = c]]

\* str.lower() of one character
LowerChar(c) == IF c \in DOMAIN LowerOf THEN LowerOf[c] ELSE c

\* str.lower()
lower(s) == [i \in 1..Len(s) |-> LowerChar(s[i])]

\* the Python expression  k in text : k occurs as a substring of text
Contains(text, k) ==
    \E i \in 0..(Len(text) - Len(k)) :
        \A j \in 1..Len(k) : text[i + j] = k[j]

\* ------------------------------------------------------------ segmentation
\* first index >= i of s that holds no whitespace (Len(s) + 1 when none)
RECURSIVE SkipSpace(_, _)
SkipSpace(s, i) ==
    IF i <= Len(s) /\ IsSpace(s[i]) THEN SkipSpace(s, i + 1) ELSE i

\* (?<=[.!?])\s+ matches at i: a whitespace run that follows a terminator
TerminatorGap(s, i) == i > 1 /\ IsSpace(s[i]) /\ IsTerminal(s[i - 1])

\* the look-ahead restricted to a '#' that starts a token: (?<!\S)(?=#[^\s]+)
HashtagAhead_m(s, i) ==
    /\ s[i] = "#" /\ i < Len(s) /\ ~IsSpace(s[i + 1])
    /\ (i = 1 \/ IsSpace(s[i - 1]))

\* (?=#[^\s]+) matches at i: a '#' followed by a non-whitespace character
HashtagAhead(s, i) == s[i] = "#" /\ i < Len(s) /\ ~IsSpace(s[i + 1])

\* re.split scanning s from i; last is where the open segment starts
RECURSIVE SplitFrom(_, _, _, _)
SplitFrom(s, i, last, acc) ==
    IF i > Len(s) THEN Append(acc, SubSeq(s, last, Len(s)))
    ELSE IF TerminatorGap(s, i)
         THEN LET j == SkipSpace(s, i)
              IN  SplitFrom(s, j, j, Append(acc, SubSeq(s, last, i - 1)))
    ELSE IF HashtagAhead(s, i)
         THEN SplitFrom(s, i + 1, i, Append(acc, SubSeq(s, last, i - 1)))
    ELSE SplitFrom(s, i + 1, last, acc)

\* re.split(r"(?<=[.!?])\s+|(?=#[^\s]+)", s)
re_split(s) == SplitFrom(s, 1, 1, <<>>)

\* s.strip()
RECURSIVE strip(_)
strip(s) ==
    IF s = <<>> THEN s
    ELSE IF IsSpace(s[1]) THEN strip(Tail(s))
    ELSE IF IsSpace(s[Len(s)]) THEN strip(SubSeq(s, 1, Len(s) - 1))
    ELSE s

\* re.sub(r"\s+", " ", s): every whitespace run becomes one space
RECURSIVE CollapseFrom(_, _, _)
CollapseFrom(s, i, acc) ==
    IF i > Len(s) THEN acc
    ELSE IF IsSpace(s[i])
         THEN CollapseFrom(s, SkipSpace(s, i), Append(acc, " "))
    ELSE CollapseFrom(s, i + 1, Append(acc, s[i]))

re_sub_space(s) == CollapseFrom(s, 1, <<>>)

\* clean = re.sub(r"\s+", " ", s.strip())
Clean(s) == re_sub_space(strip(s))

\* re.fullmatch(r"[.!?]+", clean)
fullmatch_terminal(clean) ==
    clean # <<>> /\ \A i \in 1..Len(clean) : IsTerminal(clean[i])

\* the filter without its fullmatch test: if clean
Keeps_m(clean) == clean # <<>>

\* the filter of line 111: if clean and not re.fullmatch(r"[.!?]+", clean)
Keeps(clean) == clean # <<>> /\ ~fullmatch_terminal(clean)

\* ---------------------------------------------------------- Python values
Str(s) == [t |-> "str", s |-> s, items |-> <<>>]
\* an int, s its decimal digits
Int(digits) == [t |-> "int", s |-> digits, items |-> <<>>]
None == [t |-> "none", s |-> <<>>, items |-> <<>>]
\* the float nan pandas.read_csv gives an empty cell
NaN == [t |-> "nan", s |-> <<>>, items |-> <<>>]
List(items) == [t |-> "list", s |-> <<>>, items |-> items]
\* one key of a dict with its value
Item(key, value) == [t |-> "item", s |-> key, items |-> <<value>>]
Dict(items) == [t |-> "dict", s |-> <<>>, items |-> items]

\* str(v)
py_str(v) ==
    CASE v.t = "str" -> v.s
      [] v.t = "int" -> v.s
      [] v.t = "nan" -> <<"n","a","n">>
      [] OTHER -> <<"N","o","n","e">>

\* what  for k in v  visits, when v is iterable
Iterable(v) == v.t \in {"list", "str", "dict"}
Elements(v) ==
    CASE v.t = "list" -> v.items
      [] v.t = "str" -> [i \in 1..Len(v.s) |-> Str(<<v.s[i]>>)]
      [] v.t = "dict" -> [i \in 1..Len(v.items) |-> Str(v.items[i].s)]
      [] OTHER -> <<>>

DEFAULT_DICT == Dict(<<
    Item(<<"F","a","s","h","i","o","n">>, List(<<
        Str(<<"s","t","y","l","e">>),
        Str(<<"f","a","s","h","i","o","n">>),
        Str(<<"w","a","r","d","r","o","b","e">>),
        Str(<<"c","l","o","t","h","i","n","g">>),
        Str(<<"o","u","t","f","i","t">>)>>)),
    Item(<<"F","o","o","d">>, List(<<
        Str(<<"d","e","l","i","c","i","o","u","s">>),
        Str(<<"f","o","o","d">>),
        Str(<<"d","i","n","n","e","r">>),
        Str(<<"l","u","n","c","h">>),
        Str(<<"r","e","s","t","a","u","r","a","n","t">>)>>)),
    Item(<<"T","r","a","v","e","l">>, List(<<
        Str(<<"t","r","a","v","e","l">>),
        Str(<<"t","r","i","p">>),
        Str(<<"v","a","c","a","t","i","o","n">>),
        Str(<<"e","x","p","l","o","r","e">>),
        Str(<<"j","o","u","r","n","e","y">>)>>)),
    Item(<<"F","i","t","n","e","s","s">>, List(<<
        Str(<<"w","o","r","k","o","u","t">>),
        Str(<<"f","i","t","n","e","s","s">>),
        Str(<<"e","x","e","r","c","i","s","e">>),
        Str(<<"g","y","m">>),
        Str(<<"t","r","a","i","n","i","n","g">>)>>))>>)

\* ------------------------------------------------------------------- JSON
\* JSON text is a sequence of tokens [k, s]: k is the punctuation mark, or
\* "str", "num", "null" with the literal's characters in s.
Tok(k) == [k |-> k, s |-> <<>>]
StrTok(s) == [k |-> "str", s |-> s]
NumTok(digits) == [k |-> "num", s |-> digits]

ParseFail == [ok |-> FALSE, value |-> None, next |-> 0]

\* a dict after d[key] = value: a repeated key keeps its place, takes the value
SetItem(items, key, value) ==
    IF \E i \in 1..Len(items) : items[i].s = key
    THEN [i \in 1..Len(items) |->
             IF items[i].s = key THEN Item(key, value) ELSE items[i]]
    ELSE Append(items, Item(key, value))

RECURSIVE ParseValue(_, _), ParseElements(_, _, _), ParseMembers(_, _, _)
\* the JSON value that starts at token i
ParseValue(toks, i) ==
    IF i > Len(toks) THEN ParseFail
    ELSE CASE toks[i].k = "str" ->
                [ok |-> TRUE, value |-> Str(toks[i].s), next |-> i + 1]
           [] toks[i].k = "num" ->
                [ok |-> TRUE, value |-> Int(toks[i].s), next |-> i + 1]
           [] toks[i].k = "null" ->
                [ok |-> TRUE, value |-> None, next |-> i + 1]
           [] toks[i].k = "[" ->
                IF i < Len(toks) /\ toks[i + 1].k = "]"
                THEN [ok |-> TRUE, value |-> List(<<>>), next |-> i + 2]
                ELSE ParseElements(toks, i + 1, <<>>)
           [] toks[i].k = "{" ->
                IF i < Len(toks) /\ toks[i + 1].k = "}"
                THEN [ok |-> TRUE, value |-> Dict(<<>>), next |-> i + 2]
                ELSE ParseMembers(toks, i + 1, <<>>)
           [] OTHER -> ParseFail

\* the elements of an array from token i on, acc those already read
ParseElements(toks, i, acc) ==
    LET v == ParseValue(toks, i)
    IN  IF ~v.ok \/ v.next > Len(toks) THEN ParseFail
        ELSE IF toks[v.next].k = ","
             THEN ParseElements(toks, v.next + 1, Append(acc, v.value))
        ELSE IF toks[v.next].k = "]"
             THEN [ok |-> TRUE, value |-> List(Append(acc, v.value)),
                   next |-> v.next + 1]
        ELSE ParseFail

\* the members of an object from token i on, acc those already read
ParseMembers(toks, i, acc) ==
    IF i + 1 > Len(toks) \/ toks[i].k # "str" \/ toks[i + 1].k # ":"
    THEN ParseFail
    ELSE LET v == ParseValue(toks, i + 2)
         IN  IF ~v.ok \/ v.next > Len(toks) THEN ParseFail
             ELSE IF toks[v.next].k = ","
                  THEN ParseMembers(toks, v.next + 1,
                                    SetItem(acc, toks[i].s, v.value))
             ELSE IF toks[v.next].k = "}"
                  THEN [ok |-> TRUE,
                        value |-> Dict(SetItem(acc, toks[i].s, v.value)),
                        next |-> v.next + 1]
             ELSE ParseFail

\* json.loads(text): ok is FALSE when it raises json.JSONDecodeError
json_loads(text) ==
    LET v == ParseValue(text, 1)
    IN  IF v.ok /\ v.next = Len(text) + 1
        THEN [ok |-> TRUE, value |-> v.value]
        ELSE [ok |-> FALSE, value |-> None]

\* xs[1] \o sep \o xs[2] \o sep ... : token sequences joined by a separator
RECURSIVE Join(_, _)
Join(xs, sep) ==
    IF xs = <<>> THEN <<>>
    ELSE IF Len(xs) = 1 THEN xs[1]
    ELSE xs[1] \o <<sep>> \o Join(Tail(xs), sep)

\* json.dumps(v, indent=2), the white space between tokens left out
RECURSIVE json_dumps(_)
json_dumps(v) ==
    CASE v.t = "str" -> <<StrTok(v.s)>>
      [] v.t = "int" -> <<NumTok(v.s)>>
      [] v.t = "list" ->
            <<Tok("[")>>
            \o Join([i \in 1..Len(v.items) |-> json_dumps(v.items[i])], Tok(","))
            \o <<Tok("]")>>
      [] v.t = "dict" ->
            <<Tok("{")>>
            \o Join([i \in 1..Len(v.items) |->
                        <<StrTok(v.items[i].s), Tok(":")>>
                        \o json_dumps(v.items[i].items[1])], Tok(","))
            \o <<Tok("}")>>
      [] OTHER -> <<Tok("null")>>

\* lines 78-84: the dictionary the sidebar resolves from the text area, and
\* whether st.sidebar.error is shown
ResolveDictionary(text) ==
    LET r == json_loads(text)
    IN  IF r.ok /\ r.value.t = "dict"
        THEN [keyword_dict |-> r.value, error |-> FALSE]
        ELSE [keyword_dict |-> DEFAULT_DICT, error |-> TRUE]

\* ------------------------------------------------------------------ state
VARIABLES
    dict_input,      \* the text of the "Dictionary (JSON)" text area
    keyword_dict,    \* the module-level dictionary of lines 78-84
    sidebar_error,   \* whether st.sidebar.error is shown
    uploaded_file,   \* the file of the uploader, present or not
    page,            \* what the main area shows after the rerun
    final_df,        \* the table shown when processing completes
    exception,       \* the exception the rerun ended with, "" when none
    call             \* a direct call of one of the two helper functions

vars == <<dict_input, keyword_dict, sidebar_error, uploaded_file, page,
          final_df, exception, call>>

\* ------------------------------------------------------- helper functions
Uncategorized == <<"U","n","c","a","t","e","g","o","r","i","z","e","d">>

\* any(k.lower() in text_lower for k in kws), the elements from i on:
\* "True", "False", or the exception k.lower() raises on a k that is no str
RECURSIVE AnyFrom(_, _, _)
AnyFrom(elems, i, text_lower) ==
    IF i > Len(elems) THEN "False"
    ELSE IF elems[i].t # "str" THEN "AttributeError"
    ELSE IF Contains(text_lower, lower(elems[i].s)) THEN "True"
    ELSE AnyFrom(elems, i + 1, text_lower)

\* line 97; iterating a value that is not iterable raises TypeError
AnyKeyword(kws, text_lower) ==
    IF Iterable(kws) THEN AnyFrom(Elements(kws), 1, text_lower)
    ELSE "TypeError"

\* the loop of lines 96-99 from the i-th item of kw_dict.items() on
RECURSIVE ClassifyFrom(_, _, _)
ClassifyFrom(items, i, text_lower) ==
    IF i > Len(items) THEN [raised |-> "", value |-> Uncategorized]
    ELSE LET found == AnyKeyword(items[i].items[1], text_lower)
         IN  CASE found = "True" -> [raised |-> "", value |-> items[i].s]
               [] found = "False" -> ClassifyFrom(items, i + 1, text_lower)
               [] OTHER -> [raised |-> found, value |-> <<>>]

\* classify_sentence without text.lower()
classify_sentence_m(text, kw_dict) == ClassifyFrom(kw_dict.items, 1, text)

\* classify_sentence(text, kw_dict): the category returned, or the exception
classify_sentence(text, kw_dict) ==
    ClassifyFrom(kw_dict.items, 1, lower(text))

\* df.rename(columns={"shortcode": "ID", "caption": "Context"})
rename(df) ==
    [i \in 1..Len(df) |-> [ID |-> df[i].shortcode, Context |-> df[i].caption]]

\* the dictionary line 118 hands to classify_sentence: the module-level
\* keyword_dict, not the parameter kw_dict
ClassifierDict(kw_dict) == keyword_dict

\* the number enumerate(sentences, start=1) gives the i-th raw segment
SentenceId(i, kept) == i

\* lines 112-120: the rows after the append for raw segment i, cat being what
\* classify_sentence gave for clean
AppendRow(row, i, kept, clean, cat, rows) ==
    IF cat.raised # "" THEN [raised |-> cat.raised, rows |-> <<>>]
    ELSE [raised |-> "",
          rows |-> Append(rows,
                      [ID |-> row.ID,
                       Context |-> row.Context,
                       Sentence_ID |-> SentenceId(i, kept),
                       Statement |-> clean,
                       Category |-> cat.value])]

\* lines 111-120 for raw segment i, clean being its cleaned text
SentenceBody(row, i, kept, clean, kw_dict, rows) ==
    IF Keeps(clean)
    THEN AppendRow(row, i, kept, clean,
                   classify_sentence(clean, ClassifierDict(kw_dict)), rows)
    ELSE [raised |-> "", rows |-> rows]

\* lines 109-120 for one row, from raw segment i on; kept counts the
\* segments already appended for this row
RECURSIVE SentenceLoop(_, _, _, _, _, _)
\* the loop after raw segment i, out being what its body gave
SentenceNext(row, sentences, i, kept, kw_dict, out) ==
    IF out.raised # "" THEN out
    ELSE SentenceLoop(row, sentences, i + 1, kept, kw_dict, out.rows)

SentenceLoop(row, sentences, i, kept, kw_dict, rows) ==
    IF i > Len(sentences) THEN [raised |-> "", rows |-> rows]
    ELSE SentenceNext(row, sentences, i,
             IF Keeps(Clean(sentences[i])) THEN kept + 1 ELSE kept, kw_dict,
             SentenceBody(row, i, kept, Clean(sentences[i]), kw_dict, rows))

\* the rows visited last to first
iterrows_m(df) == [n \in 1..Len(df) |-> df[Len(df) + 1 - n]]

\* the order in which df.iterrows() visits the rows
iterrows(df) == df

\* lines 106-120 from the n-th row on
RECURSIVE RowLoop(_, _, _, _)
\* the loop after the n-th row, out being what its sentences gave
RowNext(df, n, kw_dict, out) ==
    IF out.raised # "" THEN out ELSE RowLoop(df, n + 1, kw_dict, out.rows)

RowLoop(df, n, kw_dict, rows) ==
    IF n > Len(df) THEN [raised |-> "", rows |-> rows]
    ELSE RowNext(df, n, kw_dict,
             SentenceLoop(df[n], re_split(py_str(df[n].Context)), 1, 0,
                          kw_dict, rows))

\* process_dataframe(df, kw_dict): the rows of the DataFrame returned, or the
\* exception that propagates
process_dataframe(df, kw_dict) ==
    RowLoop(iterrows(rename(df)), 1, kw_dict, <<>>)

\* ----------------------------------------------------------------- inputs
\* most caption characters of an enumerated table, all rows together
MaxChars == 3
\* longest text of an enumerated direct call of classify_sentence
MaxText == 3

\* the characters of enumerated captions
Alphabet == {" ", ".", "#", "x"}
\* the characters of the texts of enumerated calls of classify_sentence
TextAlphabet == {" ", "x", "y", "X"}

\* the strings over alphabet of at most n characters
Strings(alphabet, n) == UNION {[1..k -> alphabet] : k \in 0..n}

Digits == <<"1","2","3","4","5","6","7","8","9">>
\* the i-th row of an enumerated table has shortcode "p<i>"
Row(i, cell) == [shortcode |-> Str(<<"p", Digits[i]>>), caption |-> cell]

\* the caption cells of at most c characters; pd.read_csv reads an empty
\* cell as nan, never as the empty string
Cells(c) == {Str(s) : s \in Strings(Alphabet, c) \ {<<>>}} \cup {NaN}
CellSize(cell) == Len(cell.s)

\* the tables whose rows from the i-th on hold at most c caption characters
RECURSIVE TablesFrom(_, _)
TablesFrom(i, c) ==
    IF i > MaxRows THEN {<<>>}
    ELSE {<<>>} \cup
         UNION {{<<Row(i, cell)>> \o rest :
                    rest \in TablesFrom(i + 1, c - CellSize(cell))} :
                cell \in Cells(c)}

LoveCaption ==
    <<"L","o","v","e"," ","t","h","i","s"," ","o","u","t","f","i","t","!"," ",
      "#","f","a","s","h","i","o","n"," ","#","o","o","t","d">>
\* the row {shortcode: "p1", caption: "Love this outfit! #fashion #ootd"}
LoveTable == <<Row(1, Str(LoveCaption))>>

Tables == TablesFrom(1, MaxChars) \cup {LoveTable}

RequiredColumns == {"shortcode", "caption"}
NoFile == [present |-> FALSE, columns |-> {}, rows |-> <<>>]
\* the CSV files a user uploads: a table with the two columns, or a file
\* without the caption column
Files ==
    {[present |-> TRUE, columns |-> RequiredColumns, rows |-> t] : t \in Tables}
    \cup {[present |-> TRUE, columns |-> {"shortcode", "text"}, rows |-> <<>>]}

\* {"A": ["x"], "B": ["x", "y"]}
DictAB == Dict(<<Item(<<"A">>, List(<<Str(<<"x">>)>>)),
                 Item(<<"B">>, List(<<Str(<<"x">>), Str(<<"y">>)>>))>>)
\* {"B": ["y"], "A": ["X", "y"]}
DictBA == Dict(<<Item(<<"B">>, List(<<Str(<<"y">>)>>)),
                 Item(<<"A">>, List(<<Str(<<"X">>), Str(<<"y">>)>>))>>)
\* {"A": [], "B": ["y x"]}
DictPhrase == Dict(<<Item(<<"A">>, List(<<>>)),
                     Item(<<"B">>, List(<<Str(<<"y"," ","x">>)>>))>>)

\* the dictionaries of enumerated direct calls
KwDicts == {DictAB, DictBA, DictPhrase, DEFAULT_DICT, Dict(<<>>)}

\* the texts a user leaves in the text area
TextDefault == json_dumps(DEFAULT_DICT)
TextAB == json_dumps(DictAB)
\* ["x"]
TextArray == <<Tok("["), StrTok(<<"x">>), Tok("]")>>
\* null
TextNull == <<Tok("null")>>
\* {"A":
TextTruncated == <<Tok("{"), StrTok(<<"A">>), Tok(":")>>
\* {}
TextEmptyObject == <<Tok("{"), Tok("}")>>
\* {"A": 5}
TextNumberValue == json_dumps(Dict(<<Item(<<"A">>, Int(<<"5">>))>>))
\* {"A": [5]}
TextNumberKeyword == json_dumps(Dict(<<Item(<<"A">>, List(<<Int(<<"5">>)>>))>>))
\* {"A": "x"}
TextStringValue == json_dumps(Dict(<<Item(<<"A">>, Str(<<"x">>))>>))

DictTexts == {TextDefault, TextAB, TextArray, TextNull, TextTruncated,
              TextEmptyObject, TextNumberValue, TextNumberKeyword,
              TextStringValue}

\* ---------------------------------------------------------------- the app
NoRet == [raised |-> "", value |-> <<>>, rows |-> <<>>]
NoCall == [fn |-> "none", text |-> <<>>, df |-> <<>>, kw_dict |-> Dict(<<>>),
           include_hashtags |-> TRUE, ret |-> NoRet]

\* pd.read_csv(uploaded_file)
raw_df == uploaded_file.rows

\* lines 158-162: what the page shows after process_dataframe gave out
ShowResult(out) ==
    IF out.raised # ""
    THEN page' = "exception" /\ final_df' = <<>> /\ exception' = out.raised
    ELSE page' = "complete" /\ final_df' = out.rows /\ exception' = ""

\* lines 146-171 of one run of the script
MainLogic(file, clicked) ==
    IF ~file.present
    THEN page' = "info" /\ final_df' = <<>> /\ exception' = ""
    ELSE IF ~(RequiredColumns \subseteq file.columns)
    THEN page' = "columns_error" /\ final_df' = <<>> /\ exception' = ""
    ELSE IF ~clicked
    THEN page' = "ready" /\ final_df' = <<>> /\ exception' = ""
    ELSE ShowResult(process_dataframe(file.rows, keyword_dict))

\* one run of the script, top to bottom: the sidebar resolves the dictionary
\* (lines 72-84), then the main logic runs.  The run that follows a click
\* finds the text area as the run before left it, so the dictionary
\* process_dataframe reads is the one already in keyword_dict.
Rerun(text, file, clicked) ==
    /\ dict_input' = text
    /\ keyword_dict' = ResolveDictionary(text).keyword_dict
    /\ sidebar_error' = ResolveDictionary(text).error
    /\ uploaded_file' = file
    /\ MainLogic(file, clicked)
    /\ UNCHANGED call

\* the first run: the text area holds json.dumps(DEFAULT_DICT, indent=2)
Init ==
    /\ dict_input = json_dumps(DEFAULT_DICT)
    /\ keyword_dict = ResolveDictionary(dict_input).keyword_dict
    /\ sidebar_error = ResolveDictionary(dict_input).error
    /\ uploaded_file = NoFile
    /\ page = "info"
    /\ final_df = <<>>
    /\ exception = ""
    /\ call = NoCall

\* the user edits the dictionary text
EditDictionary ==
    \E text \in DictTexts \ {dict_input} : Rerun(text, uploaded_file, FALSE)

\* the user picks a CSV file
UploadFile ==
    /\ ~uploaded_file.present
    /\ \E file \in Files : Rerun(dict_input, file, FALSE)

\* the user removes the file
RemoveFile ==
    /\ uploaded_file.present
    /\ Rerun(dict_input, NoFile, FALSE)

\* the user clicks Transform (line 156); the button is there only when the
\* run before got past the two st.stop() calls
ClickTransform ==
    /\ page \in {"ready", "complete", "exception"}
    /\ Rerun(dict_input, uploaded_file, TRUE)

Next == EditDictionary \/ UploadFile \/ RemoveFile \/ ClickTransform

Spec == Init /\ [][Next]_vars

\* ----------------------------------------------------------- direct calls
\* the texts of enumerated calls of classify_sentence
Texts == Strings(TextAlphabet, MaxText)

\* the module-level dictionary is whatever the sidebar resolved
InitCall ==
    /\ dict_input \in {TextDefault, TextAB}
    /\ keyword_dict = ResolveDictionary(dict_input).keyword_dict
    /\ sidebar_error = ResolveDictionary(dict_input).error
    /\ uploaded_file = NoFile
    /\ page = "info"
    /\ final_df = <<>>
    /\ exception = ""
    /\ call = NoCall

Call_classify_sentence ==
    /\ call.fn = "none"
    /\ \E text \in Texts, kw_dict \in KwDicts :
          LET out == classify_sentence(text, kw_dict)
          IN  call' = [fn |-> "classify_sentence", text |-> text, df |-> <<>>,
                       kw_dict |-> kw_dict, include_hashtags |-> TRUE,
                       ret |-> [raised |-> out.raised, value |-> out.value,
                                rows |-> <<>>]]
    /\ UNCHANGED <<dict_input, keyword_dict, sidebar_error, uploaded_file,
                   page, final_df, exception>>

\* include_hashtags is the option of step 4 of "How to Use" (line 131) as the
\* caller wants it; process_dataframe has no parameter that takes it
Call_process_dataframe ==
    /\ call.fn = "none"
    /\ \E df \in Tables, kw_dict \in KwDicts, include_hashtags \in BOOLEAN :
          LET out == process_dataframe(df, kw_dict)
          IN  call' = [fn |-> "process_dataframe", text |-> <<>>, df |-> df,
                       kw_dict |-> kw_dict,
                       include_hashtags |-> include_hashtags,
                       ret |-> [raised |-> out.raised, value |-> <<>>,
                                rows |-> out.rows]]
    /\ UNCHANGED <<dict_input, keyword_dict, sidebar_error, uploaded_file,
                   page, final_df, exception>>

NextCall == Call_classify_sentence \/ Call_process_dataframe

SpecCall == InitCall /\ [][NextCall]_vars

\* ----------------------------------------------------------------- claims
\* '#' at index i of s with a non-whitespace character after it
HashThenText(s, i) ==
    s[i] = "#" /\ i < Len(s) /\ s[i + 1] \notin {" ", "\t", "\n"}

\* the text of the caption of input row n
CaptionText(n) == py_str(raw_df[n].caption)

\* s holds nothing but whitespace and the characters . ! ?
OnlySpaceOrTerminal(s) ==
    \A i \in 1..Len(s) : s[i] \in {" ", "\t", "\n", ".", "!", "?"}

\* C1: the Sentence IDs of the output rows of one input row are 1, 2, ..., N
\* in order: each output row's number is one more than the number of earlier
\* output rows of the same input row (enumerated rows have distinct ids).
C1_SentenceIdsSequential ==
    page = "complete" =>
        \A k \in 1..Len(final_df) :
            final_df[k].Sentence_ID =
                1 + Cardinality({j \in 1..(k - 1) : final_df[j].ID = final_df[k].ID})

\* C2: no Statement is empty or made only of . ! ?, and an input row whose
\* caption holds only whitespace and terminal punctuation has no output row.
C2_StatementNeverEmptyOrPunctuation ==
    page = "complete" =>
        /\ \A k \in 1..Len(final_df) :
              /\ final_df[k].Statement # <<>>
              /\ \E i \in 1..Len(final_df[k].Statement) :
                    final_df[k].Statement[i] \notin {".", "!", "?"}
        /\ \A n \in 1..Len(raw_df) :
              OnlySpaceOrTerminal(CaptionText(n)) =>
                  ~\E k \in 1..Len(final_df) : final_df[k].ID = raw_df[n].shortcode

\* C2 witness: a table with a punctuation-only caption and a caption that
\* yields a statement has been transformed.
C2_Witness ==
    /\ page = "complete"
    /\ final_df # <<>>
    /\ \E n \in 1..Len(raw_df) :
          Len(CaptionText(n)) > 1 /\ OnlySpaceOrTerminal(CaptionText(n))

\* the sequences of xs one after the other
RECURSIVE Flatten(_)
Flatten(xs) == IF xs = <<>> THEN <<>> ELSE xs[1] \o Flatten(Tail(xs))

\* s without its whitespace
NoSpace(s) == SelectSeq(s, LAMBDA c : c \notin {" ", "\t", "\n"})

\* a is b with some of its characters . ! ? left out, the rest in order
RECURSIVE LeftToRight(_, _)
LeftToRight(a, b) ==
    IF b = <<>> THEN a = <<>>
    ELSE \/ a # <<>> /\ a[1] = b[1] /\ LeftToRight(Tail(a), Tail(b))
         \/ b[1] \in {".", "!", "?"} /\ LeftToRight(a, Tail(b))

\* the output rows a table of the single input row n gives
FragmentsOfRow(n) == process_dataframe(<<raw_df[n]>>, keyword_dict).rows

\* the output rows frags of input row n carry its shortcode, and their
\* statements read left to right as in its caption
RowInOrder(n, frags) ==
    /\ \A k \in 1..Len(frags) : frags[k].ID = raw_df[n].shortcode
    /\ LeftToRight(
          NoSpace(Flatten([k \in 1..Len(frags) |-> frags[k].Statement])),
          NoSpace(CaptionText(n)))

\* C3: the output is the fragment sequences of the input rows one after the
\* other in input-row order; each output row carries the shortcode of its
\* input row; the statements of a row read left to right as in its caption.
C3_OutputInOrderWithIds ==
    page = "complete" =>
        /\ final_df = Flatten([n \in 1..Len(raw_df) |-> FragmentsOfRow(n)])
        /\ \A n \in 1..Len(raw_df) : RowInOrder(n, FragmentsOfRow(n))

\* C3 witness: a table of two rows has been transformed, the first row gave
\* two fragments and the second gave one.
C3_Witness ==
    /\ page = "complete"
    /\ Len(raw_df) = 2
    /\ Len(final_df) = 3
    /\ final_df[1].ID = raw_df[1].shortcode
    /\ final_df[2].ID = raw_df[1].shortcode
    /\ final_df[3].ID = raw_df[2].shortcode
    /\ final_df[1].Statement # final_df[2].Statement

\* a and b are the same letter in either case, or the same character
SameIgnoringCase(a, b) ==
    \/ a = b
    \/ \E i \in 1..Len(UpperCase) : {a, b} = {UpperCase[i], LowerCase[i]}

\* keyword occurs in text as a case-insensitive substring
OccursIgnoringCase(keyword, text) ==
    \E i \in 0..(Len(text) - Len(keyword)) :
        \A j \in 1..Len(keyword) : SameIgnoringCase(text[i + j], keyword[j])

\* the category at place i of the dictionary has a keyword that occurs in text
CategoryMatches(kw_dict, i, text) ==
    \E j \in 1..Len(kw_dict.items[i].items[1].items) :
        OccursIgnoringCase(kw_dict.items[i].items[1].items[j].s, text)

\* C4: classify_sentence returns the first category, in dictionary order,
\* with a keyword that occurs in the text as a case-insensitive substring,
\* and "Uncategorized" exactly when no category has one; with
\* {"A": ["x"], "B": ["x", "y"]} the text "y x" is classified "A".
C4_FirstMatchingCategory ==
    call.fn = "classify_sentence" =>
        LET matching == {i \in 1..Len(call.kw_dict.items) :
                            CategoryMatches(call.kw_dict, i, call.text)}
        IN  /\ call.ret.raised = ""
            /\ matching = {} <=> call.ret.value = Uncategorized
            /\ matching # {} =>
                  \E i \in matching :
                      /\ \A j \in matching : i <= j
                      /\ call.ret.value = call.kw_dict.items[i].s
            /\ (call.kw_dict = DictAB /\ call.text = <<"y", " ", "x">>) =>
                  call.ret.value = <<"A">>

\* C4 witness: classify_sentence("y x", {"A": ["x"], "B": ["x", "y"]}) has
\* returned.
C4_Witness ==
    /\ call.fn = "classify_sentence"
    /\ call.kw_dict = DictAB
    /\ call.text = <<"y", " ", "x">>
    /\ call.ret.value = <<"A">>

\* C4 witness of the case-insensitive match: an upper-case text matched a
\* lower-case keyword of the second category while the first did not match.
C4_WitnessCase ==
    /\ call.fn = "classify_sentence"
    /\ call.kw_dict = DictBA
    /\ call.text = <<"x">>
    /\ call.ret.value = <<"A">>

Fashion == <<"F","a","s","h","i","o","n">>
LoveThisOutfit ==
    <<"L","o","v","e"," ","t","h","i","s"," ","o","u","t","f","i","t","!">>
HashFashion == <<"#","f","a","s","h","i","o","n">>
HashOotd == <<"#","o","o","t","d">>

\* the Sentence ID, Statement and Category columns of a table
Columns(rows) ==
    [k \in 1..Len(rows) |-> <<rows[k].Sentence_ID, rows[k].Statement,
                              rows[k].Category>>]

\* the row "p1", "Love this outfit! #fashion #ootd" has been transformed with
\* the default dictionary
LoveTransformed ==
    page = "complete" /\ raw_df = LoveTable /\ dict_input = TextDefault

\* C5 as stated: the row gives "Love this outfit!", "#fashion", "#ootd" with
\* Sentence IDs 1, 2, 3 and categories Fashion, Fashion, Fashion.
C5_AsStated ==
    LoveTransformed =>
        Columns(final_df) = << <<1, LoveThisOutfit, Fashion>>,
                               <<2, HashFashion, Fashion>>,
                               <<3, HashOotd, Fashion>> >>

\* C5 amended: the row gives exactly those three statements in that order with
\* categories Fashion, Fashion, Uncategorized (no default keyword occurs in
\* "#ootd") and Sentence IDs 1, 3, 4 (the empty raw segment between "! " and
\* "#fashion" takes number 2, the numbering C1 is about).
C5_LoveExample ==
    LoveTransformed =>
        /\ Columns(final_df) = << <<1, LoveThisOutfit, Fashion>>,
                                  <<3, HashFashion, Fashion>>,
                                  <<4, HashOotd, Uncategorized>> >>
        /\ \A k \in 1..Len(final_df) : final_df[k].ID = Str(<<"p", "1">>)

\* C5 witness: that transform has completed with three output rows.
C5_Witness == LoveTransformed /\ Len(final_df) = 3

\* C6: with the include-hashtags option off the transform splits only after
\* a terminator followed by whitespace, never before '#': the caption
\* "Love this outfit! #fashion #ootd" gives the single fragment
\* "Love this outfit! #fashion #ootd" with Sentence ID 1, and a one-row table
\* whose caption holds no terminator gives at most one output row.
C6_HashtagOptionOff ==
    (call.fn = "process_dataframe" /\ ~call.include_hashtags
        /\ call.ret.raised = "") =>
        /\ call.df = LoveTable =>
              /\ Len(call.ret.rows) = 1
              /\ call.ret.rows[1].Statement = LoveCaption
              /\ call.ret.rows[1].Sentence_ID = 1
        /\ (Len(call.df) = 1
              /\ \A i \in 1..Len(py_str(call.df[1].caption)) :
                    py_str(call.df[1].caption)[i] \notin {".", "!", "?"}) =>
              Len(call.ret.rows) <= 1

\* v is a non-empty JSON object whose values are all lists of strings
ObjectOfKeywordLists(v) ==
    /\ v.t = "dict"
    /\ v.items # <<>>
    /\ \A i \in 1..Len(v.items) :
          /\ v.items[i].items[1].t = "list"
          /\ \A j \in 1..Len(v.items[i].items[1].items) :
                v.items[i].items[1].items[j].t = "str"

\* C7: the dictionary handed to the transform is the parsed text when that is
\* a non-empty object of keyword lists, and DEFAULT_DICT otherwise.
C7_DictionaryValidatedOrDefault ==
    keyword_dict =
        IF json_loads(dict_input).ok
           /\ ObjectOfKeywordLists(json_loads(dict_input).value)
        THEN json_loads(dict_input).value
        ELSE DEFAULT_DICT

\* C8: no run of the transform ends with an exception.
C8_NoException == page # "exception" /\ exception = ""

\* the numbers of S in increasing order
RECURSIVE Ascending(_)
Ascending(S) ==
    IF S = {} THEN <<>>
    ELSE LET m == CHOOSE x \in S : \A y \in S : x <= y
         IN  <<m>> \o Ascending(S \ {m})

\* the '#' at i starts a token: it is at the start of s or follows whitespace
StartsToken(s, i) == i = 1 \/ s[i - 1] \in {" ", "\t", "\n"}
AnyPlace(s, i) == TRUE

\* a hashtag split point of s under the rule P: a '#' followed by text
HashSplit(s, i, P(_, _)) == i <= Len(s) /\ HashThenText(s, i) /\ P(s, i)

\* a terminator split of s starts at i: whitespace right after . ! or ?
GapStart(s, i) ==
    /\ 1 < i /\ i <= Len(s)
    /\ s[i] \in {" ", "\t", "\n"}
    /\ s[i - 1] \in {".", "!", "?"}

\* a terminator split of s ends right before i: the whitespace run that
\* starts at some r after a terminator reaches i - 1 and no further
GapEnd(s, i) ==
    /\ i = Len(s) + 1 \/ s[i] \notin {" ", "\t", "\n"}
    /\ \E r \in 2..(i - 1) :
          GapStart(s, r) /\ \A q \in r..(i - 1) : s[q] \in {" ", "\t", "\n"}

\* where the pieces of s start when it is cut at the terminator splits and at
\* the hashtag split points of rule P
PieceStarts(s, P(_, _)) ==
    {i \in 1..Len(s) : i = 1 \/ HashSplit(s, i, P) \/ GapEnd(s, i)}

\* the piece of s that starts at i: up to the next split
Piece(s, i, P(_, _)) ==
    SubSeq(s, i,
           CHOOSE e \in i..Len(s) :
               /\ e = Len(s) \/ HashSplit(s, e + 1, P) \/ GapStart(s, e + 1)
               /\ \A d \in i..(e - 1) :
                     ~(HashSplit(s, d + 1, P) \/ GapStart(s, d + 1)))

\* the pieces of s that hold more than whitespace and . ! ?, left to right,
\* their whitespace dropped
ExpectedStatements(s, P(_, _)) ==
    LET starts == Ascending({i \in PieceStarts(s, P) :
                                ~OnlySpaceOrTerminal(Piece(s, i, P))})
    IN  [k \in 1..Len(starts) |-> NoSpace(Piece(s, starts[k], P))]

\* the statements of the output rows of input row n, their whitespace dropped
StatementsOfRow(n) ==
    LET own == SelectSeq(final_df, LAMBDA r : r.ID = raw_df[n].shortcode)
    IN  [k \in 1..Len(own) |-> NoSpace(own[k].Statement)]

\* every '#' followed by text in a statement is the statement's first character
HashOnlyInFront ==
    \A k \in 1..Len(final_df) :
        \A i \in 2..Len(final_df[k].Statement) :
            ~HashThenText(final_df[k].Statement, i)

\* C9 as stated: the hashtag split points are exactly the '#' that start a
\* token and are followed by text (a '#' inside a token is none), and every
\* '#' followed by text in a statement is its first character.
C9_AsStated ==
    page = "complete" =>
        /\ \A n \in 1..Len(raw_df) :
              StatementsOfRow(n) = ExpectedStatements(CaptionText(n), StartsToken)
        /\ HashOnlyInFront

\* C9 amended: the hashtag split points are exactly the '#' that are followed
\* by a non-whitespace character, whatever precedes them ("x#x" gives "x" and
\* "#x"), and every '#' followed by text in a statement is its first
\* character.
C9_SplitBeforeEveryHashtag ==
    page = "complete" =>
        /\ \A n \in 1..Len(raw_df) :
              StatementsOfRow(n) = ExpectedStatements(CaptionText(n), AnyPlace)
        /\ HashOnlyInFront

\* C9 witness: a caption with a '#' inside a token, text after it, has been
\* transformed and a statement starts at that '#'.
C9_Witness ==
    /\ page = "complete"
    /\ \E n \in 1..Len(raw_df) : \E i \in 2..Len(CaptionText(n)) :
          /\ HashThenText(CaptionText(n), i)
          /\ ~StartsToken(CaptionText(n), i)
          /\ \E k \in 1..Len(final_df) :
                /\ final_df[k].ID = raw_df[n].shortcode
                /\ final_df[k].Statement =
                      SubSeq(CaptionText(n), i, Len(CaptionText(n)))

\* C10: every category of the output of process_dataframe(df, kw_dict) is
\* classify_sentence(statement, kw_dict) for the kw_dict of the call, whatever
\* the module-level keyword_dict holds.
C10_CategoriesFromArgument ==
    (call.fn = "process_dataframe" /\ call.ret.raised = "") =>
        \A k \in 1..Len(call.ret.rows) :
            call.ret.rows[k].Category =
                classify_sentence(call.ret.rows[k].Statement, call.kw_dict).value

====
